---- MODULE Spec2Model ----
(***************************************************************************)
(* Model of etl_pipeline.py: main() runs extract, transform,               *)
(* load_to_staging for every source and merge_to_dim_fact against one      *)
(* SQL Server connection.  Tables are sequences of rows, a row is a        *)
(* function from column name to value, values are integers and 0 is NULL.  *)
(***************************************************************************)
EXTENDS Integers, Sequences, FiniteSets, TLC

\* ------------------------------------------------------------------ bounds
MaxId == 1
MaxVal == 2
MaxRows == 2
MaxRuns == 2
MaxFaults == 1

\* SQL NULL / pandas NaN / None
NULL == 0

\* ----------------------------------------------------------- generic helpers
SeqToSet(s) == {s[i] : i \in DOMAIN s}

Has(cols, c) == \E i \in DOMAIN cols : cols[i] = c

RECURSIVE SelectIdx(_, _, _)
SelectIdx(rows, S, i) ==
    IF i > Len(rows) THEN <<>>
    ELSE (IF i \in S THEN <<rows[i]>> ELSE <<>>) \o SelectIdx(rows, S, i + 1)

RECURSIVE SumSet(_, _)
SumSet(f, S) ==
    IF S = {} THEN 0
    ELSE LET c == CHOOSE x \in S : TRUE IN f[c] + SumSet(f, S \ {c})

\* --------------------------------------------------------------- value codes
\* str.strip().str.title() / str.upper(): an odd code is an unnormalised
\* spelling of the next even code; NaN stays NaN.
StrNormalize(v) == IF v = NULL THEN NULL ELSE v + (v % 2)

\* pd.to_numeric(errors='coerce'): every modelled code is already numeric.
to_numeric(v) == v

\* pd.to_datetime(errors='coerce'): every modelled code is a valid timestamp.
to_datetime(v) == v

\* CAST(x AS NVARCHAR(50)): the decimal string of x, coded apart from numbers.
CastNVarchar(v) == IF v = NULL THEN NULL ELSE 100 + v

\* df.columns.str.strip().str.lower().str.replace(' ', '_') on the API names.
LowerSnake(c) ==
    CASE c = "Flight_Date" -> "flight_date"
      [] c = "Flight IATA" -> "flight_iata"
      [] OTHER -> c

\* ------------------------------------------------------------------- schemas
Feeds == {"df_cust", "df_book", "df_pay", "df_air", "df_flights", "df_routes",
          "df_csv", "df_api"}

StagingTables == {"Stg_Customers", "Stg_Bookings", "Stg_Payments", "Stg_Aircrafts",
                  "Stg_Flights", "Stg_Routes", "Stg_CustomerSatisfaction",
                  "Stg_API_Flights"}

\* the merge order of merge_to_dim_fact
Targets == <<"DimCustomer", "DimAircraft", "DimRoute", "DimFlight", "DimPayment",
             "DimSatisfaction", "FactBooking">>

rating_cols == <<"Inflight wifi service", "Departure/Arrival time convenient",
                 "Ease of Online booking", "Gate location", "Food and drink",
                 "Online boarding", "Seat comfort", "Inflight entertainment",
                 "On-board service", "Leg room service", "Baggage handling",
                 "Checkin service", "Inflight service", "Cleanliness">>

\* the fourteen rating columns the DimSatisfaction MERGE reads from staging
StgRatingCols == <<"InflightWifiService", "DepartureArrivalConvenient",
                   "EaseOfOnlineBooking", "GateLocation", "FoodAndDrink",
                   "OnlineBoarding", "SeatComfort", "InflightEntertainment",
                   "OnboardService", "LegRoomService", "BaggageHandling",
                   "CheckinService", "InflightService", "Cleanliness">>

required_cols == <<"CustomerID", "TypeOfTravel", "Class", "FlightDistance",
                   "Satisfaction", "AverageRating">>

\* Columns returned by SELECT * / read_csv / json_normalize in the reference
\* deployment; the key column of every feed carries the record's identifier.
BaseSrcCols ==
    [df_cust    |-> <<"CustomerID", "Name">>,
     df_book    |-> <<"BookingID", "CustomerID", "FlightID", "BookingDate">>,
     df_pay     |-> <<"PaymentID", "PaymentMethod", "Amount", "PaymentDate">>,
     df_air     |-> <<"PlaneID", "Model", "Capacity", "ManufactureYear">>,
     df_flights |-> <<"FlightID", "RouteID", "PlaneID", "DepartureTime", "ArrivalTime">>,
     df_routes  |-> <<"RouteID", "Origin", "Destination", "Distance">>,
     df_csv     |-> <<"Unnamed: 0", "id", "Type of Travel", "Class", "Flight Distance">>
                    \o rating_cols \o <<"satisfaction">>,
     df_api     |-> <<"Flight IATA", "Flight_Date">>]

BaseSrcKey ==
    [df_cust |-> "CustomerID", df_book |-> "BookingID", df_pay |-> "PaymentID",
     df_air |-> "PlaneID", df_flights |-> "FlightID", df_routes |-> "RouteID",
     df_csv |-> "id", df_api |-> "Flight IATA"]

\* Physical columns of the staging tables in the reference deployment.
BaseTableCols ==
    [Stg_Customers |-> <<"CustomerID", "Name">>,
     Stg_Bookings  |-> <<"BookingID", "CustomerID", "FlightID", "BookingDate">>,
     Stg_Payments  |-> <<"PaymentID", "PaymentMethod", "Amount", "PaymentDate">>,
     Stg_Aircrafts |-> <<"PlaneID", "Model", "Capacity", "ManufactureYear">>,
     Stg_Flights   |-> <<"FlightID", "RouteID", "PlaneID", "DepartureTime", "ArrivalTime">>,
     Stg_Routes    |-> <<"RouteID", "Origin", "Destination", "Distance">>,
     Stg_CustomerSatisfaction |->
         <<"CustomerID", "TypeOfTravel", "Class", "FlightDistance", "Satisfaction">>
         \o StgRatingCols,
     Stg_API_Flights |-> <<"flight_iata", "flight_date">>]

\* A deployment: what the sources return, the staging tables' physical columns
\* and what INFORMATION_SCHEMA.COLUMNS shows of them (get_table_columns).
Base == [srcCols |-> BaseSrcCols, srcKey |-> BaseSrcKey,
         tableCols |-> BaseTableCols, catalog |-> BaseTableCols]

AircraftCols(id) == <<id, "Model", "Capacity", "ManufactureYear">>

AircraftNamed(id) ==
    [Base EXCEPT !.srcCols.df_air = AircraftCols(id), !.srcKey.df_air = id,
                 !.tableCols.Stg_Aircrafts = AircraftCols(id),
                 !.catalog.Stg_Aircrafts = AircraftCols(id)]

RoutesWithoutRouteID ==
    [Base EXCEPT !.tableCols.Stg_Routes = <<"Origin", "Destination", "Distance">>,
                 !.catalog.Stg_Routes = <<"Origin", "Destination", "Distance">>]

\* payments staged as (PaymentID, Method, Amount, Date), bookings with Date
ShortNames ==
    LET pay == <<"PaymentID", "Method", "Amount", "Date">>
        book == <<"BookingID", "CustomerID", "FlightID", "Date">>
    IN [Base EXCEPT !.srcCols.df_pay = pay, !.tableCols.Stg_Payments = pay,
                    !.catalog.Stg_Payments = pay,
                    !.srcCols.df_book = book, !.tableCols.Stg_Bookings = book,
                    !.catalog.Stg_Bookings = book]

CustomersWithNotes ==
    [Base EXCEPT !.srcCols.df_cust = <<"CustomerID", "Name", "Notes">>]

FlightsAircraftID ==
    LET cols == <<"FlightID", "RouteID", "AircraftID", "DepartureTime", "ArrivalTime">>
    IN [Base EXCEPT !.srcCols.df_flights = cols, !.tableCols.Stg_Flights = cols,
                    !.catalog.Stg_Flights = cols]

RoutesCatalogHidden == [Base EXCEPT !.catalog.Stg_Routes = <<>>]

Deployments ==
    {Base, AircraftNamed("AircraftID"), AircraftNamed("ID"), RoutesWithoutRouteID,
     ShortNames, CustomersWithNotes, FlightsAircraftID, RoutesCatalogHidden}

\* --------------------------------------------------------------- source data
Ids == 0 .. MaxId
Vals == 0 .. MaxVal
Records == Ids \X Vals

RECURSIVE SeqsUpTo(_, _)
SeqsUpTo(S, n) ==
    IF n = 0 THEN {<<>>}
    ELSE LET shorter == SeqsUpTo(S, n - 1)
         IN shorter \cup {Append(s, x) : s \in {t \in shorter : Len(t) = n - 1}, x \in S}

Contents == SeqsUpTo(Records, MaxRows)

\* columns that refer to another feed's identifier
ReferenceCols == {"CustomerID", "FlightID", "RouteID", "PlaneID", "AircraftID"}

Position(cols, c) == CHOOSE i \in DOMAIN cols : cols[i] = c

\* the row a source returns for record p = <<id, v>>: the key column holds the
\* identifier, a reference column the value v, every other column a value of
\* its own derived from v (NULL when v is NULL)
RawRow(cols, key, p) ==
    [c \in SeqToSet(cols) |->
        IF c = key THEN p[1]
        ELSE IF p[2] = NULL THEN NULL
        ELSE IF c \in ReferenceCols THEN p[2]
        ELSE p[2] + 10 * Position(cols, c)]

RawFrame(cols, key, content) ==
    [cols |-> cols, rows |-> [i \in DOMAIN content |-> RawRow(cols, key, content[i])]]

EmptyFrame == [cols |-> <<>>, rows |-> <<>>]

\* ------------------------------------------------------- dataframe operations
\* the conversion a transform applies to a column, by its pandas name
Convert(f, v) ==
    CASE f \in {"str.title", "str.upper"} -> StrNormalize(v)
      [] f = "to_numeric" -> to_numeric(v)
      [] f = "to_datetime" -> to_datetime(v)

\* df[c] = f(df[c])
MapCol(df, c, f) ==
    [df EXCEPT !.rows = [i \in DOMAIN df.rows |->
                            [k \in DOMAIN df.rows[i] |->
                                IF k = c THEN Convert(f, df.rows[i][k])
                                ELSE df.rows[i][k]]]]

\* if c in df.columns: df[c] = f(df[c])
MapColIfPresent(df, c, f) == IF Has(df.cols, c) THEN MapCol(df, c, f) ELSE df

\* df = df[df[c] > 0]  (NaN > 0 is False)
KeepPositive(df, c) ==
    [df EXCEPT !.rows = SelectSeq(df.rows, LAMBDA r : r[c] # NULL /\ r[c] > 0)]

\* df.drop_duplicates(subset=[c], keep='first'); NaN keys count as equal
drop_duplicates(df, c) ==
    [df EXCEPT !.rows =
        SelectIdx(df.rows,
                  {i \in DOMAIN df.rows :
                      \A j \in 1 .. (i - 1) : df.rows[j][c] # df.rows[i][c]},
                  1)]

\* df.dropna(subset=cs)
dropna(df, cs) ==
    [df EXCEPT !.rows = SelectSeq(df.rows, LAMBDA r : \A c \in cs : r[c] # NULL)]

\* 'X' if 'X' in df.columns else df.columns[0]
IdColOrFirst(df, c) == IF Has(df.cols, c) THEN c ELSE df.cols[1]

\* ---------------------------------------------------------------- transforms
transform_oltp1_customers(df) ==
    LET d1 == MapColIfPresent(df, "Name", "str.title")
    IN drop_duplicates(d1, IdColOrFirst(d1, "CustomerID"))

transform_oltp1_bookings(df) ==
    LET d1 == MapColIfPresent(df, "BookingDate", "to_datetime")
        req == {c \in {"CustomerID", "FlightID"} : Has(d1.cols, c)}
        d2 == IF req # {} THEN dropna(d1, req) ELSE d1
    IN drop_duplicates(d2, IdColOrFirst(d2, "BookingID"))

\* no drop_duplicates here
transform_oltp1_payments(df) ==
    LET d1 == MapColIfPresent(df, "PaymentMethod", "str.title")
        d2 == IF Has(d1.cols, "Amount")
              THEN KeepPositive(MapCol(d1, "Amount", "to_numeric"), "Amount") ELSE d1
    IN MapColIfPresent(d2, "PaymentDate", "to_datetime")

\* for possible_id in ['AircraftID', 'PlaneID', 'ID']
AircraftIdCandidates == <<"AircraftID", "PlaneID", "ID">>

transform_oltp2_aircrafts(df) ==
    LET d1 == MapColIfPresent(df, "Model", "str.upper")
        d2 == IF Has(d1.cols, "Capacity")
              THEN KeepPositive(MapCol(d1, "Capacity", "to_numeric"), "Capacity") ELSE d1
        present == {i \in DOMAIN AircraftIdCandidates : Has(d2.cols, AircraftIdCandidates[i])}
    IN IF present = {} THEN d2
       ELSE drop_duplicates(d2, AircraftIdCandidates[CHOOSE i \in present :
                                                        \A j \in present : i <= j])

transform_oltp2_flights(df) ==
    LET d1 == MapColIfPresent(df, "FlightNumber", "str.upper")
        d2 == MapColIfPresent(d1, "DepartureTime", "to_datetime")
        d3 == MapColIfPresent(d2, "ArrivalTime", "to_datetime")
    IN drop_duplicates(d3, IdColOrFirst(d3, "FlightID"))

transform_oltp2_routes(df) ==
    LET d1 == MapColIfPresent(df, "Origin", "str.title")
        d2 == MapColIfPresent(d1, "Destination", "str.title")
        d3 == IF Has(d2.cols, "Distance")
              THEN KeepPositive(MapCol(d2, "Distance", "to_numeric"), "Distance") ELSE d2
    IN drop_duplicates(d3, IdColOrFirst(d3, "RouteID"))

transform_api(df) ==
    IF df.rows = <<>> \/ df.cols = <<>> THEN df
    ELSE LET cols == [i \in DOMAIN df.cols |-> LowerSnake(df.cols[i])]
             old(c) == CHOOSE k \in SeqToSet(df.cols) : LowerSnake(k) = c
             d1 == [cols |-> cols,
                    rows |-> [i \in DOMAIN df.rows |->
                                 [c \in SeqToSet(cols) |-> df.rows[i][old(c)]]]]
         IN IF Has(cols, "flight_iata") THEN drop_duplicates(d1, "flight_iata") ELSE d1

\* df[existing_cols].mean(axis=1): mean of the non-NaN ratings, NaN if none
RowMean(r, cs) ==
    LET got == {c \in cs : r[c] # NULL}
    IN IF got = {} THEN NULL ELSE SumSet(r, got) \div Cardinality(got)

column_mapping ==
    [CustomerID |-> "id", TypeOfTravel |-> "Type of Travel", Class |-> "Class",
     FlightDistance |-> "Flight Distance", Satisfaction |-> "Satisfaction",
     AverageRating |-> "AverageRating"]

transform_csv(df) ==
    LET kept == SelectSeq(df.cols, LAMBDA c : c # "Unnamed: 0")
        hasSat == Has(kept, "satisfaction")
        existing_cols == {c \in SeqToSet(rating_cols) : Has(kept, c)}
        \* the columns of df after the two derived columns are added
        avail == SeqToSet(kept) \cup (IF hasSat THEN {"Satisfaction"} ELSE {})
                                \cup (IF existing_cols # {} THEN {"AverageRating"} ELSE {})
        cell(r, c) == CASE c = "Satisfaction" /\ hasSat -> StrNormalize(r["satisfaction"])
                        [] c = "AverageRating" /\ existing_cols # {} -> RowMean(r, existing_cols)
                        [] OTHER -> r[c]
    IN [cols |-> required_cols,
        rows |-> [i \in DOMAIN df.rows |->
                     [db_col \in SeqToSet(required_cols) |->
                         IF column_mapping[db_col] \in avail
                         THEN cell(df.rows[i], column_mapping[db_col]) ELSE NULL]]]

Transform(feed, df) ==
    CASE feed = "df_cust" -> transform_oltp1_customers(df)
      [] feed = "df_book" -> transform_oltp1_bookings(df)
      [] feed = "df_pay" -> transform_oltp1_payments(df)
      [] feed = "df_air" -> transform_oltp2_aircrafts(df)
      [] feed = "df_flights" -> transform_oltp2_flights(df)
      [] feed = "df_routes" -> transform_oltp2_routes(df)
      [] feed = "df_api" -> transform_api(df)
      [] feed = "df_csv" -> transform_csv(df)

\* ------------------------------------------------------------ load_to_staging
get_table_columns(catalog, table_name) == catalog[table_name]

\* bug: the frame is inserted as it came, no column is filtered out
valid_columns_unfiltered(df, db_columns) == df.cols

\* valid_columns = [col for col in df.columns if col in db_columns]; the frame
\* is left as it is when the catalog returned no column
valid_columns(df, db_columns) ==
    IF db_columns = <<>> THEN df.cols
    ELSE SelectSeq(df.cols, LAMBDA col : Has(db_columns, col))

\* the "Columns ... not found ... Skipping these columns" warning
ProjectionWarning(df, db_columns) ==
    db_columns # <<>> /\ Len(valid_columns(df, db_columns)) # Len(df.cols)

\* DELETE FROM dbo.<table>; conn.commit()
ClearStaging(old) == <<>>

\* INSERT INTO t ([c1], ...) VALUES (?, ...): named columns get the record's
\* values, every other physical column is NULL
InsertedRow(row, cols, table_cols) ==
    [c \in SeqToSet(table_cols) |-> IF Has(cols, c) THEN row[c] ELSE NULL]

\* row.to_dict() of the projected frame
RowDict(row, cols) == [c \in SeqToSet(cols) |-> row[c]]

\* bug: the insert error is logged and the loop goes on
OnInsertErrorSkips == "continue"

\* except Exception as e: print(...); raise
OnInsertError == "raise"

\* bug: every INSERT is committed on its own (autocommit)
CommittedOnRaiseAutocommit(inserted) == inserted

\* What is committed of the inserts when the exception leaves main(): the
\* connection is dropped with autocommit off, the open transaction rolls back.
CommittedOnRaise(inserted) == <<>>

\* rej is the index of the record the server rejects (0: none).  A statement
\* that names a column the table does not have, or no column at all, fails for
\* every record.
load_to_staging(df, old, db_columns, table_cols, rej) ==
    LET cols == valid_columns(df, db_columns)
        sqlError == cols = <<>> \/ \E c \in SeqToSet(cols) : ~Has(table_cols, c)
        failing == IF sqlError THEN DOMAIN df.rows
                   ELSE IF rej \in DOMAIN df.rows THEN {rej} ELSE {}
        first == IF failing = {} THEN 0
                 ELSE CHOOSE i \in failing : \A j \in failing : i <= j
        raised == failing # {} /\ OnInsertError = "raise"
        done == IF raised THEN 1 .. (first - 1) ELSE DOMAIN df.rows \ failing
        inserted == [i \in 1 .. Len(SelectIdx(df.rows, done, 1)) |->
                        InsertedRow(SelectIdx(df.rows, done, 1)[i], cols, table_cols)]
        cleared == ClearStaging(old)
    IN [columns   |-> cols,
        warned    |-> ProjectionWarning(df, db_columns),
        status    |-> IF raised THEN "raised" ELSE "ok",
        rows      |-> IF raised THEN cleared \o CommittedOnRaise(inserted)
                      ELSE cleared \o inserted,
        offending |-> IF failing = {} THEN <<>> ELSE <<RowDict(df.rows[first], cols)>>]

\* ------------------------------------------------------------- MERGE (T-SQL)
\* a = b in an ON clause: UNKNOWN, hence no match, when either side is NULL
SqlEq(a, b) == a # NULL /\ b # NULL /\ a = b

MatchesOf(t, using, key) == {j \in DOMAIN using : SqlEq(t[key], using[j][key])}

\* bug: WHEN MATCHED THEN UPDATE SET every column, whatever the target
MergeStmtOverwritesAll(tgt, using, key, updateCols) ==
    LET upd(t) ==
            IF MatchesOf(t, using, key) = {} THEN t
            ELSE LET s == using[CHOOSE j \in MatchesOf(t, using, key) :
                                   \A k \in MatchesOf(t, using, key) : j <= k]
                 IN [c \in DOMAIN t |-> IF c \in DOMAIN s THEN s[c] ELSE t[c]]
        unmatched == SelectSeq(using, LAMBDA s :
                         ~\E i \in DOMAIN tgt : SqlEq(tgt[i][key], s[key]))
    IN [status |-> "ok",
        rows |-> [i \in DOMAIN tgt |-> upd(tgt[i])] \o unmatched]

\* MERGE tgt USING using ON tgt.key = src.key
\*   WHEN MATCHED THEN UPDATE SET updateCols   (only when updateCols # {})
\*   WHEN NOT MATCHED THEN INSERT ...
\* The statement fails (error 8672) when an UPDATE would touch a target row
\* from more than one source row; matching is against the target as it was
\* before the statement.
MergeStmt(tgt, using, key, updateCols) ==
    IF updateCols # {} /\ \E i \in DOMAIN tgt : Cardinality(MatchesOf(tgt[i], using, key)) > 1
    THEN [status |-> "failed", rows |-> tgt]
    ELSE LET upd(t) ==
                 IF updateCols = {} \/ MatchesOf(t, using, key) = {} THEN t
                 ELSE LET s == using[CHOOSE j \in MatchesOf(t, using, key) : TRUE]
                      IN [c \in DOMAIN t |-> IF c \in updateCols THEN s[c] ELSE t[c]]
             unmatched == SelectSeq(using, LAMBDA s :
                              ~\E i \in DOMAIN tgt : SqlEq(tgt[i][key], s[key]))
         IN [status |-> "ok",
             rows |-> [i \in DOMAIN tgt |-> upd(tgt[i])] \o unmatched]

\* ---------------------------------------------------------- column resolution
IndexError == "#IndexError"

\* 'X' if 'X' in cols else cols[0]
ColOrFirst(cols, c) ==
    IF Has(cols, c) THEN c ELSE IF cols # <<>> THEN cols[1] ELSE IndexError

\* 'X' if 'X' in cols else 'Y'
ColOrLiteral(cols, c, d) == IF Has(cols, c) THEN c ELSE d

aircraft_id_col(stg_aircrafts_cols) == ColOrLiteral(stg_aircrafts_cols, "PlaneID", "AircraftID")
route_id_col(stg_routes_cols) == ColOrFirst(stg_routes_cols, "RouteID")
origin_col(stg_routes_cols) == ColOrLiteral(stg_routes_cols, "Source", "Origin")
flight_id_col(stg_flights_cols) == ColOrFirst(stg_flights_cols, "FlightID")
payment_id_col(stg_payments_cols) == ColOrFirst(stg_payments_cols, "PaymentID")
method_col(stg_payments_cols) == ColOrLiteral(stg_payments_cols, "Method", "PaymentMethod")
date_col(stg_payments_cols) == ColOrLiteral(stg_payments_cols, "Date", "PaymentDate")
satisfaction_id_col(stg_satisfaction_cols) == ColOrFirst(stg_satisfaction_cols, "CustomerID")
booking_id_col(stg_bookings_cols) == ColOrFirst(stg_bookings_cols, "BookingID")
customer_id_col(stg_bookings_cols) == ColOrLiteral(stg_bookings_cols, "CustomerID", "CustomerID")
booking_flight_id_col(stg_bookings_cols) == ColOrLiteral(stg_bookings_cols, "FlightID", "FlightID")
booking_date_col(stg_bookings_cols) == ColOrLiteral(stg_bookings_cols, "Date", "BookingDate")

\* ---------------------------------------------------------- per-table merges
NoCols == [f \in {} |-> ""]

Failed(tgt, cause, res) ==
    [status |-> "failed", cause |-> cause, rows |-> tgt, resolved |-> res]

\* One try-block of merge_to_dim_fact: the Python expressions that pick the
\* columns run first (IndexError on an empty column list), then the MERGE is
\* sent; it is rejected when it names a column the staging table does not have
\* (refs), when the server rejects it for a reason of its own (envFails) or
\* when MergeStmt itself fails.
TryMerge(tgt, res, refsOk, envFails, using, key, updateCols) ==
    IF \E f \in DOMAIN res : res[f] = IndexError THEN Failed(tgt, "IndexError", res)
    ELSE IF ~refsOk THEN Failed(tgt, "InvalidColumn", res)
    ELSE IF envFails THEN Failed(tgt, "StatementError", res)
    ELSE LET m == MergeStmt(tgt, using, key, updateCols)
         IN [status |-> m.status,
             cause |-> IF m.status = "ok" THEN "" ELSE "StatementError",
             rows |-> m.rows, resolved |-> res]

MergeDimCustomer(tgt, src, src_cols, stg_customers_cols, envFails) ==
    TryMerge(tgt, NoCols, {"CustomerID", "Name"} \subseteq SeqToSet(src_cols), envFails,
             [i \in DOMAIN src |->
                 [CustomerID |-> src[i]["CustomerID"], Name |-> src[i]["Name"]]],
             "CustomerID", {"Name"})

MergeDimAircraft(tgt, src, src_cols, stg_aircrafts_cols, envFails) ==
    LET id == aircraft_id_col(stg_aircrafts_cols)
    IN TryMerge(tgt, [aircraft_id_col |-> id],
                {id, "Model", "Capacity", "ManufactureYear"} \subseteq SeqToSet(src_cols),
                envFails,
                [i \in DOMAIN src |->
                    [AircraftID |-> src[i][id], Model |-> src[i]["Model"],
                     Capacity |-> src[i]["Capacity"],
                     ManufactureYear |-> src[i]["ManufactureYear"]]],
                "AircraftID", {})

MergeDimRoute(tgt, src, src_cols, stg_routes_cols, envFails) ==
    LET id == route_id_col(stg_routes_cols)
        origin == origin_col(stg_routes_cols)
    IN TryMerge(tgt, [route_id_col |-> id, origin_col |-> origin],
                {id, origin, "Destination", "Distance"} \subseteq SeqToSet(src_cols),
                envFails,
                [i \in DOMAIN src |->
                    [RouteID |-> src[i][id], Origin |-> src[i][origin],
                     Destination |-> src[i]["Destination"],
                     Distance |-> src[i]["Distance"]]],
                "RouteID", {})

MergeDimFlight(tgt, src, src_cols, stg_flights_cols, envFails) ==
    LET id == flight_id_col(stg_flights_cols)
    IN TryMerge(tgt, [flight_id_col |-> id],
                {id, "DepartureTime", "ArrivalTime"} \subseteq SeqToSet(src_cols),
                envFails,
                [i \in DOMAIN src |->
                    [FlightID |-> src[i][id], FlightNumber |-> CastNVarchar(src[i][id]),
                     DepartureTime |-> src[i]["DepartureTime"],
                     ArrivalTime |-> src[i]["ArrivalTime"]]],
                "FlightID", {})

MergeDimPayment(tgt, src, src_cols, stg_payments_cols, envFails) ==
    LET id == payment_id_col(stg_payments_cols)
        method == method_col(stg_payments_cols)
        date == date_col(stg_payments_cols)
    IN TryMerge(tgt, [payment_id_col |-> id, method_col |-> method, date_col |-> date],
                {id, method, "Amount", date} \subseteq SeqToSet(src_cols),
                envFails,
                [i \in DOMAIN src |->
                    [PaymentID |-> src[i][id], PaymentMethod |-> src[i][method],
                     Amount |-> src[i]["Amount"], PaymentDate |-> src[i][date]]],
                "PaymentID", {})

\* (CAST(r1 AS FLOAT) + ... + CAST(r14 AS FLOAT)) / 14.0: NULL as soon as one
\* rating is NULL; the quotient is kept in hundredths
AverageRating(r) ==
    IF \E c \in SeqToSet(StgRatingCols) : r[c] = NULL THEN NULL
    ELSE (100 * SumSet(r, SeqToSet(StgRatingCols))) \div 14

\* satisfaction_id_col is computed and never used: the statement names CustomerID
MergeDimSatisfaction(tgt, src, src_cols, stg_satisfaction_cols, envFails) ==
    TryMerge(tgt, [satisfaction_id_col |-> satisfaction_id_col(stg_satisfaction_cols)],
             ({"CustomerID", "TypeOfTravel", "Class", "FlightDistance", "Satisfaction"}
                 \cup SeqToSet(StgRatingCols)) \subseteq SeqToSet(src_cols),
             envFails,
             [i \in DOMAIN src |->
                 [CustomerID |-> src[i]["CustomerID"],
                  TypeOfTravel |-> src[i]["TypeOfTravel"], Class |-> src[i]["Class"],
                  FlightDistance |-> src[i]["FlightDistance"],
                  Satisfaction |-> src[i]["Satisfaction"],
                  AverageRating |-> AverageRating(src[i])]],
             "CustomerID", {})

\* bug: JOIN instead of LEFT JOIN, a booking without a staged flight is lost
RECURSIVE InnerJoinFlights(_, _, _, _)
InnerJoinFlights(bs, fs, col, i) ==
    IF i > Len(bs) THEN <<>>
    ELSE LET m == SelectSeq(fs, LAMBDA f : SqlEq(bs[i][col], f["FlightID"]))
         IN [k \in DOMAIN m |->
                [b |-> bs[i], RouteID |-> m[k]["RouteID"], PlaneID |-> m[k]["PlaneID"]]]
            \o InnerJoinFlights(bs, fs, col, i + 1)

\* FROM dbo.Stg_Bookings b LEFT JOIN dbo.Stg_Flights f ON b.<col> = f.FlightID:
\* one joined row per matching flight, one row of NULLs when there is none
RECURSIVE LeftJoinFlights(_, _, _, _)
LeftJoinFlights(bs, fs, col, i) ==
    IF i > Len(bs) THEN <<>>
    ELSE LET m == SelectSeq(fs, LAMBDA f : SqlEq(bs[i][col], f["FlightID"]))
             part == IF m = <<>>
                     THEN <<[b |-> bs[i], RouteID |-> NULL, PlaneID |-> NULL]>>
                     ELSE [k \in DOMAIN m |->
                              [b |-> bs[i], RouteID |-> m[k]["RouteID"],
                               PlaneID |-> m[k]["PlaneID"]]]
         IN part \o LeftJoinFlights(bs, fs, col, i + 1)

MergeFactBooking(tgt, src, src_cols, stg_bookings_cols, flights, flights_cols, envFails) ==
    LET bid == booking_id_col(stg_bookings_cols)
        cid == customer_id_col(stg_bookings_cols)
        fid == booking_flight_id_col(stg_bookings_cols)
        date == booking_date_col(stg_bookings_cols)
        joined == LeftJoinFlights(src, flights, fid, 1)
    IN TryMerge(tgt,
                [booking_id_col |-> bid, customer_id_col |-> cid,
                 booking_flight_id_col |-> fid, booking_date_col |-> date],
                {bid, cid, fid, date} \subseteq SeqToSet(src_cols)
                    /\ {"FlightID", "RouteID", "PlaneID"} \subseteq SeqToSet(flights_cols),
                envFails,
                [i \in DOMAIN joined |->
                    [BookingID |-> joined[i].b[bid], CustomerID |-> joined[i].b[cid],
                     FlightID |-> joined[i].b[fid], RouteID |-> joined[i].RouteID,
                     AircraftID |-> joined[i].PlaneID, PaymentID |-> joined[i].b[bid],
                     SatisfactionKey |-> joined[i].b[cid],
                     BookingDate |-> joined[i].b[date]]],
                "BookingID", {})

\* bug: no try/except around a table's merge, the error leaves merge_to_dim_fact
OnMergeErrorRaises(table) == "raise"

\* except Exception as e: print(f"Error merging ...: {e}") -- and go on
OnMergeError(table) == "continue"

\* The seven try-blocks in order, then conn.commit().  fails is the set of
\* targets whose statement the server rejects for its own reasons.
merge_to_dim_fact(dw, stg, catalog, tableCols, fails) ==
    LET out == [DimCustomer |->
                    MergeDimCustomer(dw.DimCustomer, stg.Stg_Customers,
                        tableCols.Stg_Customers, catalog.Stg_Customers,
                        "DimCustomer" \in fails),
                DimAircraft |->
                    MergeDimAircraft(dw.DimAircraft, stg.Stg_Aircrafts,
                        tableCols.Stg_Aircrafts, catalog.Stg_Aircrafts,
                        "DimAircraft" \in fails),
                DimRoute |->
                    MergeDimRoute(dw.DimRoute, stg.Stg_Routes,
                        tableCols.Stg_Routes, catalog.Stg_Routes, "DimRoute" \in fails),
                DimFlight |->
                    MergeDimFlight(dw.DimFlight, stg.Stg_Flights,
                        tableCols.Stg_Flights, catalog.Stg_Flights, "DimFlight" \in fails),
                DimPayment |->
                    MergeDimPayment(dw.DimPayment, stg.Stg_Payments,
                        tableCols.Stg_Payments, catalog.Stg_Payments,
                        "DimPayment" \in fails),
                DimSatisfaction |->
                    MergeDimSatisfaction(dw.DimSatisfaction, stg.Stg_CustomerSatisfaction,
                        tableCols.Stg_CustomerSatisfaction,
                        catalog.Stg_CustomerSatisfaction, "DimSatisfaction" \in fails),
                FactBooking |->
                    MergeFactBooking(dw.FactBooking, stg.Stg_Bookings,
                        tableCols.Stg_Bookings, catalog.Stg_Bookings,
                        stg.Stg_Flights, tableCols.Stg_Flights, "FactBooking" \in fails)]
        stops == {i \in DOMAIN Targets :
                     out[Targets[i]].status = "failed" /\ OnMergeError(Targets[i]) = "raise"}
        last == IF stops = {} THEN Len(Targets)
                ELSE CHOOSE i \in stops : \A j \in stops : i <= j
    IN [raised |-> stops # {},
        log |-> [i \in 1 .. last |->
                    [table |-> Targets[i], status |-> out[Targets[i]].status,
                     cause |-> out[Targets[i]].cause,
                     resolved |-> out[Targets[i]].resolved]],
        \* without the final commit the open transaction is rolled back
        dw |-> IF stops # {} THEN dw ELSE [t \in DOMAIN dw |-> out[t].rows]]

\* ---------------------------------------------------------------------- main
\* the load_to_staging calls of main(), in order; the API frame is loaded only
\* if it is not empty
LoadSequence ==
    <<[df |-> "df_cust",    table |-> "Stg_Customers",            ifNotEmpty |-> FALSE],
      [df |-> "df_book",    table |-> "Stg_Bookings",             ifNotEmpty |-> FALSE],
      [df |-> "df_pay",     table |-> "Stg_Payments",             ifNotEmpty |-> FALSE],
      [df |-> "df_air",     table |-> "Stg_Aircrafts",            ifNotEmpty |-> FALSE],
      [df |-> "df_flights", table |-> "Stg_Flights",              ifNotEmpty |-> FALSE],
      [df |-> "df_routes",  table |-> "Stg_Routes",               ifNotEmpty |-> FALSE],
      [df |-> "df_csv",     table |-> "Stg_CustomerSatisfaction", ifNotEmpty |-> FALSE],
      [df |-> "df_api",     table |-> "Stg_API_Flights",          ifNotEmpty |-> TRUE]>>

\* df.empty
IsEmpty(frame) == frame.rows = <<>> \/ frame.cols = <<>>

\* what the OLTP tables and the CSV file may become between two runs
Evolve(content) ==
    {content}
    \cup (IF Len(content) < MaxRows THEN {Append(content, r) : r \in Records} ELSE {})
    \cup (IF content # <<>> THEN {Tail(content)} ELSE {})
    \cup {[content EXCEPT ![i] = <<content[i][1], v>>] : i \in DOMAIN content, v \in Vals}

VARIABLES
    deploy,     \* the deployment: source and staging schemas
    source,     \* the records the sources hold
    phase,      \* where main() is: Extract, Transform, StageLoad, Merge, Done, Aborted
    run,        \* number of the current pipeline run
    faults,     \* failures of the environment so far
    df,         \* main()'s dataframes, by variable name
    loadIdx,    \* next entry of LoadSequence
    loaded,     \* staging tables whose load returned in this run
    stg,        \* committed rows of the staging tables
    dw,         \* committed rows of the warehouse tables
    loadLog,    \* what the last load_to_staging call did
    mergeLog,   \* what the last merge_to_dim_fact call did
    runStart,   \* the warehouse as it was when this run started
    prev        \* how the previous run ended

vars == <<deploy, source, phase, run, faults, df, loadIdx, loaded, stg, dw,
          loadLog, mergeLog, runStart, prev>>

NoFrames == [f \in Feeds |-> EmptyFrame]

NoLoad == [run |-> 0, table |-> "", batch |-> EmptyFrame, before |-> <<>>,
           db_columns |-> <<>>, columns |-> <<>>, warned |-> FALSE, status |-> "",
           offending |-> <<>>]

NoMerge == [run |-> 0, raised |-> FALSE, log |-> <<>>, loaded |-> {},
            stg |-> [t \in StagingTables |-> <<>>],
            before |-> [t \in SeqToSet(Targets) |-> <<>>]]

Init ==
    /\ deploy \in Deployments
    /\ source \in Contents
    /\ phase = "Extract"
    /\ run = 1
    /\ faults = 0
    /\ df = NoFrames
    /\ loadIdx = 1
    /\ loaded = {}
    /\ stg = [t \in StagingTables |-> <<>>]
    /\ dw = [t \in SeqToSet(Targets) |-> <<>>]
    /\ loadLog = NoLoad
    /\ mergeLog = NoMerge
    /\ runStart = dw
    /\ prev = [run |-> 0, source |-> <<>>, phase |-> "", dw |-> dw]

\* extract_oltp1, extract_oltp2, extract_api, extract_csv; extract_api returns
\* an empty frame when the request fails
Extract ==
    /\ phase = "Extract"
    /\ \E apiUp \in BOOLEAN :
        /\ ~apiUp => faults < MaxFaults
        /\ faults' = IF apiUp THEN faults ELSE faults + 1
        /\ df' = [f \in Feeds |->
                    IF f = "df_api" /\ ~apiUp THEN EmptyFrame
                    ELSE RawFrame(deploy.srcCols[f], deploy.srcKey[f], source)]
    /\ phase' = "Transform"
    /\ UNCHANGED <<deploy, source, run, loadIdx, loaded, stg, dw, loadLog, mergeLog,
                   runStart, prev>>

\* pd.read_sql / pd.read_csv raise (source unreachable, CSV_PATH missing): the
\* exception leaves main() before anything is written
ExtractFails ==
    /\ phase = "Extract"
    /\ faults < MaxFaults
    /\ faults' = faults + 1
    /\ phase' = "Aborted"
    /\ UNCHANGED <<deploy, source, run, df, loadIdx, loaded, stg, dw, loadLog, mergeLog,
                   runStart, prev>>

TransformAll ==
    /\ phase = "Transform"
    /\ df' = [f \in Feeds |-> Transform(f, df[f])]
    /\ phase' = "StageLoad"
    /\ loadIdx' = 1
    /\ UNCHANGED <<deploy, source, run, faults, loaded, stg, dw, loadLog, mergeLog,
                   runStart, prev>>

\* bug: merge_to_dim_fact is called before the other staging loads
AfterLoadFirst(i) == "Merge"

\* main() goes on to merge_to_dim_fact after the last load_to_staging call
AfterLoad(i) == IF i >= Len(LoadSequence) THEN "Merge" ELSE "StageLoad"

LoadToStaging ==
    /\ phase = "StageLoad"
    /\ loadIdx \in DOMAIN LoadSequence
    /\ LET e == LoadSequence[loadIdx]
       IN /\ ~(e.ifNotEmpty /\ IsEmpty(df[e.df]))
          /\ \E rej \in 0 .. Len(df[e.df].rows) :
              /\ rej > 0 => faults < MaxFaults
              /\ LET db_columns == get_table_columns(deploy.catalog, e.table)
                     r == load_to_staging(df[e.df], stg[e.table], db_columns,
                                          deploy.tableCols[e.table], rej)
                 IN /\ faults' = IF rej > 0 THEN faults + 1 ELSE faults
                    /\ stg' = [stg EXCEPT ![e.table] = r.rows]
                    /\ loadLog' = [run |-> run, table |-> e.table, batch |-> df[e.df],
                                   before |-> stg[e.table], db_columns |-> db_columns,
                                   columns |-> r.columns, warned |-> r.warned,
                                   status |-> r.status, offending |-> r.offending]
                    /\ IF r.status = "ok"
                       THEN /\ loaded' = loaded \cup {e.table}
                            /\ loadIdx' = loadIdx + 1
                            /\ phase' = AfterLoad(loadIdx)
                       ELSE /\ phase' = "Aborted"
                            /\ UNCHANGED <<loaded, loadIdx>>
    /\ UNCHANGED <<deploy, source, run, df, dw, mergeLog, runStart, prev>>

\* else: print("Skipping Stg_API_Flights (no data from API)")
SkipLoad ==
    /\ phase = "StageLoad"
    /\ loadIdx \in DOMAIN LoadSequence
    /\ LoadSequence[loadIdx].ifNotEmpty
    /\ IsEmpty(df[LoadSequence[loadIdx].df])
    /\ loadIdx' = loadIdx + 1
    /\ phase' = AfterLoad(loadIdx)
    /\ UNCHANGED <<deploy, source, run, faults, df, loaded, stg, dw, loadLog, mergeLog,
                   runStart, prev>>

\* merge_to_dim_fact(conn); conn.close()
MergeToDimFact ==
    /\ phase = "Merge"
    /\ \E fails \in SUBSET SeqToSet(Targets) :
        /\ faults + Cardinality(fails) <= MaxFaults
        /\ faults' = faults + Cardinality(fails)
        /\ LET r == merge_to_dim_fact(dw, stg, deploy.catalog, deploy.tableCols, fails)
           IN /\ dw' = r.dw
              /\ mergeLog' = [run |-> run, raised |-> r.raised, log |-> r.log,
                              loaded |-> loaded, stg |-> stg, before |-> dw]
              /\ phase' = IF r.raised THEN "Aborted" ELSE "Done"
    /\ UNCHANGED <<deploy, source, run, df, loadIdx, loaded, stg, loadLog, runStart, prev>>

\* the process has ended; the pipeline is started again, the sources having
\* moved on or not
NextRun ==
    /\ phase \in {"Done", "Aborted"}
    /\ run < MaxRuns
    /\ source' \in Evolve(source)
    /\ run' = run + 1
    /\ phase' = "Extract"
    /\ df' = NoFrames
    /\ loadIdx' = 1
    /\ loaded' = {}
    /\ runStart' = dw
    /\ prev' = [run |-> run, source |-> source, phase |-> phase, dw |-> dw]
    /\ UNCHANGED <<deploy, faults, stg, dw, loadLog, mergeLog>>

Next == Extract \/ ExtractFails \/ TransformAll \/ LoadToStaging \/ SkipLoad \/ MergeToDimFact \/ NextRun

Spec == Init /\ [][Next]_vars

\* ==========================================================================
\* Properties
\* ==========================================================================
TargetSet == SeqToSet(Targets)

TargetKey ==
    [DimCustomer |-> "CustomerID", DimAircraft |-> "AircraftID", DimRoute |-> "RouteID",
     DimFlight |-> "FlightID", DimPayment |-> "PaymentID",
     DimSatisfaction |-> "CustomerID", FactBooking |-> "BookingID"]

SourceTable ==
    [DimCustomer |-> "Stg_Customers", DimAircraft |-> "Stg_Aircrafts",
     DimRoute |-> "Stg_Routes", DimFlight |-> "Stg_Flights",
     DimPayment |-> "Stg_Payments", DimSatisfaction |-> "Stg_CustomerSatisfaction",
     FactBooking |-> "Stg_Bookings"]

InsertOnly == TargetSet \ {"DimCustomer"}

\* the staging column a log entry's merge used as business key
SourceKeyOf(e) ==
    CASE e.table = "DimAircraft" -> e.resolved.aircraft_id_col
      [] e.table = "DimRoute" -> e.resolved.route_id_col
      [] e.table = "DimFlight" -> e.resolved.flight_id_col
      [] e.table = "DimPayment" -> e.resolved.payment_id_col
      [] e.table = "FactBooking" -> e.resolved.booking_id_col
      [] OTHER -> "CustomerID"

MergeRan == mergeLog.run > 0

NoDuplicateRows(t) == \A i, j \in DOMAIN t : i # j => t[i] # t[j]

\* the run that just ended was a complete run on the data of a complete
\* previous run, and nothing in the environment failed in either
SecondRunOnUnchangedData ==
    /\ phase = "Done" /\ run >= 2
    /\ prev.run = run - 1 /\ prev.phase = "Done"
    /\ source = prev.source
    /\ faults = 0

\* C1: a second full run on unchanged source data leaves no duplicate row in
\* any warehouse table, and the insert-only dimensions and FactBooking hold
\* exactly the rows they held after the first run.
C1_Idempotence ==
    SecondRunOnUnchangedData =>
        /\ \A t \in TargetSet : NoDuplicateRows(dw[t])
        /\ \A t \in InsertOnly : dw[t] = prev.dw[t]

\* C2: in every reachable state every warehouse table holds at most one row
\* per business key value.
C2_BusinessKeyUnique ==
    \A t \in TargetSet : \A i, j \in DOMAIN dw[t] :
        i # j => ~SqlEq(dw[t][i][TargetKey[t]], dw[t][j][TargetKey[t]])

StagedKeysPresent(e) ==
    \A i \in DOMAIN mergeLog.stg[SourceTable[e.table]] :
        LET k == mergeLog.stg[SourceTable[e.table]][i][SourceKeyOf(e)]
        IN k # NULL => \E j \in DOMAIN dw[e.table] : dw[e.table][j][TargetKey[e.table]] = k

\* C3: whatever merges fail, every one of the seven merges is executed in
\* order, a failed one leaves its table as it was, a successful one has its
\* staged keys in the committed target, and the run ends Done, not Aborted.
C3_PartialFailureIsolation ==
    MergeRan =>
        /\ ~mergeLog.raised
        /\ Len(mergeLog.log) = Len(Targets)
        /\ \A i \in DOMAIN mergeLog.log :
            /\ mergeLog.log[i].table = Targets[i]
            /\ mergeLog.log[i].status = "failed" =>
                  dw[Targets[i]] = mergeLog.before[Targets[i]]
            /\ mergeLog.log[i].status = "ok" => StagedKeysPresent(mergeLog.log[i])
        /\ mergeLog.run = run => phase = "Done"

\* a merge failed and a later one inserted rows
C3_Witness ==
    /\ MergeRan
    /\ \E i, j \in DOMAIN mergeLog.log :
        /\ i < j
        /\ mergeLog.log[i].status = "failed"
        /\ mergeLog.log[j].status = "ok"
        /\ Len(dw[Targets[j]]) > Len(mergeLog.before[Targets[j]])

\* the ordered aliases of each resolved field, and the staging table it is
\* resolved against
FieldAliases ==
    [aircraft_id_col |-> <<"PlaneID", "AircraftID", "ID">>,
     route_id_col |-> <<"RouteID">>,
     origin_col |-> <<"Source", "Origin">>,
     flight_id_col |-> <<"FlightID">>,
     payment_id_col |-> <<"PaymentID">>,
     method_col |-> <<"Method", "PaymentMethod">>,
     date_col |-> <<"Date", "PaymentDate">>,
     satisfaction_id_col |-> <<"CustomerID">>,
     booking_id_col |-> <<"BookingID">>,
     customer_id_col |-> <<"CustomerID">>,
     booking_flight_id_col |-> <<"FlightID">>,
     booking_date_col |-> <<"Date", "BookingDate">>]

PresentAliases(f, cols) == {i \in DOMAIN FieldAliases[f] : Has(cols, FieldAliases[f][i])}

FirstPresentAlias(f, cols) ==
    FieldAliases[f][CHOOSE i \in PresentAliases(f, cols) :
                        \A j \in PresentAliases(f, cols) : i <= j]

LiveCols(e) == deploy.catalog[SourceTable[e.table]]

\* C4: every field a merge resolves is resolved to the first of its aliases,
\* in alias order, that the staging table's column list contains; with
\* aliases [PlaneID, AircraftID, ID] and columns {ID, Model, ...} that is ID.
C4_ResolverDeterminism ==
    \A i \in DOMAIN mergeLog.log :
        LET e == mergeLog.log[i]
        IN \A f \in DOMAIN e.resolved :
            PresentAliases(f, LiveCols(e)) # {} =>
                e.resolved[f] = FirstPresentAlias(f, LiveCols(e))

\* C5: when none of a required field's aliases is in the staging table's live
\* column list, resolution signals an error and the table's merge is aborted;
\* no other column and no absent column name is substituted.
C5_RequiredFieldFailsExplicitly ==
    \A i \in DOMAIN mergeLog.log :
        LET e == mergeLog.log[i]
        IN \A f \in DOMAIN e.resolved :
            PresentAliases(f, LiveCols(e)) = {} =>
                /\ e.resolved[f] = IndexError
                /\ e.status = "failed"

LoadRan == loadLog.run > 0

BatchCols == SeqToSet(loadLog.batch.cols)

\* C6: when the catalog lists columns for the destination, the INSERT names
\* exactly the batch fields that are destination columns; a dropped field is
\* warned about and is never what makes the load fail.
C6_ProjectionSafety ==
    (LoadRan /\ loadLog.db_columns # <<>>) =>
        /\ SeqToSet(loadLog.columns) = BatchCols \cap SeqToSet(loadLog.db_columns)
        /\ loadLog.warned <=> (BatchCols \ SeqToSet(loadLog.db_columns) # {})
        /\ loadLog.status = "raised" =>
              /\ faults > 0
              /\ SeqToSet(loadLog.columns) \subseteq SeqToSet(deploy.tableCols[loadLog.table])
        /\ (loadLog.status = "ok" /\ loadLog.batch.rows # <<>>) =>
              stg[loadLog.table] # <<>>

\* a batch with a Notes field was loaded into a table without that column
C6_Witness ==
    /\ LoadRan /\ loadLog.status = "ok" /\ loadLog.warned
    /\ "Notes" \in BatchCols
    /\ ~Has(loadLog.db_columns, "Notes")
    /\ Len(stg[loadLog.table]) = Len(loadLog.batch.rows)
    /\ loadLog.batch.rows # <<>>

\* the value column c of the table must hold for batch record r
Projected(r, c) == IF c \in BatchCols THEN r[c] ELSE NULL

\* C7: after load_to_staging returns, the table holds exactly the batch's
\* records, projected, in order, and nothing of what it held before; after a
\* load that raised, it holds nothing.
C7_StagingFullReplace ==
    LoadRan =>
        LET t == loadLog.table
        IN /\ loadLog.status = "ok" =>
                /\ Len(stg[t]) = Len(loadLog.batch.rows)
                /\ \A i \in DOMAIN stg[t] :
                     \A c \in SeqToSet(deploy.tableCols[t]) :
                        stg[t][i][c] = Projected(loadLog.batch.rows[i], c)
           /\ loadLog.status = "raised" => stg[t] = <<>>

\* a load replaced rows that are not in the new batch
C7_Witness ==
    /\ LoadRan /\ loadLog.status = "ok"
    /\ loadLog.before # <<>>
    /\ stg[loadLog.table] # <<>>
    /\ \E i \in DOMAIN loadLog.before :
          \A j \in DOMAIN stg[loadLog.table] : stg[loadLog.table][j] # loadLog.before[i]

FactEntry == mergeLog.log[Len(Targets)]

\* the rows the last FactBooking merge appended
FactInserted ==
    SubSeq(dw.FactBooking, Len(mergeLog.before.FactBooking) + 1, Len(dw.FactBooking))

\* the staged bookings whose BookingID was not in FactBooking, in order
NewBookings ==
    SelectSeq(mergeLog.stg.Stg_Bookings, LAMBDA b :
        ~\E i \in DOMAIN mergeLog.before.FactBooking :
            SqlEq(mergeLog.before.FactBooking[i].BookingID, b[FactEntry.resolved.booking_id_col]))

FlightLookupHolds(x) ==
    LET fs == {i \in DOMAIN mergeLog.stg.Stg_Flights :
                  SqlEq(mergeLog.stg.Stg_Flights[i]["FlightID"], x.FlightID)}
    IN IF fs = {} THEN x.RouteID = NULL /\ x.AircraftID = NULL
       ELSE \E i \in fs : /\ x.RouteID = mergeLog.stg.Stg_Flights[i]["RouteID"]
                          /\ x.AircraftID = mergeLog.stg.Stg_Flights[i]["PlaneID"]

\* C8: a FactBooking merge that succeeds inserts one fact row for every staged
\* booking whose BookingID is not yet in FactBooking, matched flight or not;
\* RouteID and AircraftID are the matching flight's, or NULL when none matches.
C8_OuterJoinNullPreservation ==
    (MergeRan /\ Len(mergeLog.log) = Len(Targets) /\ FactEntry.status = "ok") =>
        /\ Len(FactInserted) = Len(NewBookings)
        /\ \A k \in DOMAIN FactInserted :
            /\ FactInserted[k].BookingID = NewBookings[k][FactEntry.resolved.booking_id_col]
            /\ FactInserted[k].FlightID =
                   NewBookings[k][FactEntry.resolved.booking_flight_id_col]
            /\ FlightLookupHolds(FactInserted[k])

\* a booking whose flight is not staged was inserted beside staged flights
C8_Witness ==
    /\ MergeRan /\ Len(mergeLog.log) = Len(Targets) /\ FactEntry.status = "ok"
    /\ mergeLog.stg.Stg_Flights # <<>>
    /\ \E k \in DOMAIN FactInserted :
        /\ FactInserted[k].FlightID # NULL
        /\ FactInserted[k].BookingID # NULL
        /\ FactInserted[k].RouteID = NULL
        /\ ~\E i \in DOMAIN mergeLog.stg.Stg_Flights :
              mergeLog.stg.Stg_Flights[i]["FlightID"] = FactInserted[k].FlightID

\* the staging tables main() loads before table t
LoadedBefore(t) ==
    {LoadSequence[i].table : i \in {j \in DOMAIN LoadSequence :
        \E k \in DOMAIN LoadSequence : j < k /\ LoadSequence[k].table = t}}

\* C9: once an INSERT of a record has failed in this run, the run is aborted
\* with that record reported, the table is left empty, no later table is
\* loaded, no merge runs and the warehouse is as it was when the run started.
C9_RejectedRecordHalts ==
    (loadLog.run = run /\ loadLog.offending # <<>>) =>
        /\ phase = "Aborted"
        /\ loadLog.status = "raised"
        /\ \E i \in DOMAIN loadLog.batch.rows :
              loadLog.offending[1] = RowDict(loadLog.batch.rows[i], loadLog.columns)
        /\ loaded = LoadedBefore(loadLog.table)
        /\ mergeLog.run # run
        /\ dw = runStart

\* a record was rejected in a run that started with a filled warehouse
C9_Witness ==
    /\ phase = "Aborted" /\ loadLog.run = run /\ loadLog.offending # <<>>
    /\ loadLog.table = "Stg_Payments"
    /\ run > 1
    /\ dw.DimCustomer # <<>> /\ dw.DimPayment # <<>>

PhaseRank(p) ==
    CASE p = "Extract" -> 1 [] p = "Transform" -> 2 [] p = "StageLoad" -> 3
      [] p = "Merge" -> 4 [] p = "Done" -> 5 [] OTHER -> 6

RequiredLoads ==
    {"Stg_Customers", "Stg_Bookings", "Stg_Payments", "Stg_Aircrafts", "Stg_Flights",
     "Stg_Routes", "Stg_CustomerSatisfaction"}
    \cup (IF IsEmpty(df.df_api) THEN {} ELSE {"Stg_API_Flights"})

\* every merge of this run read staging tables that were all loaded
MergeAfterAllLoads ==
    mergeLog.run = run =>
        /\ RequiredLoads \subseteq mergeLog.loaded
        /\ Len(mergeLog.stg.Stg_Flights) = Len(df.df_flights.rows)
        /\ mergeLog.stg = stg

PhaseStep ==
    \/ /\ run' = run
       /\ phase' = phase
    \/ /\ run' = run
       /\ phase \notin {"Done", "Aborted"}
       /\ phase' = "Aborted" \/ PhaseRank(phase') = PhaseRank(phase) + 1
    \/ /\ run' = run + 1
       /\ phase \in {"Done", "Aborted"}
       /\ phase' = "Extract"

MergeOnlyInMergePhase ==
    mergeLog' # mergeLog => phase = "Merge" /\ RequiredLoads \subseteq loaded

\* C10: within a run the phases follow Extract, Transform, StageLoad, Merge,
\* Done without a step back, and the merge statements run only after every
\* staging load of the run (Stg_API_Flights when its batch is not empty) has
\* returned, Stg_Flights holding the whole flights batch.
C10_PhaseOrdering ==
    /\ []MergeAfterAllLoads
    /\ [][PhaseStep /\ MergeOnlyInMergePhase]_vars

\* a run is Done with the API table loaded and a fact row that got its RouteID
\* from Stg_Flights
C10_Witness ==
    /\ phase = "Done" /\ mergeLog.run = run
    /\ "Stg_API_Flights" \in mergeLog.loaded
    /\ \E i \in DOMAIN dw.FactBooking : dw.FactBooking[i].RouteID # NULL

\* the columns each target's WHEN MATCHED clause sets
UpdateColumns ==
    [t \in TargetSet |-> IF t = "DimCustomer" THEN {"Name"} ELSE {}]

\* the rows of the staging table a log entry's merge read
StagedFor(e) == mergeLog.stg[SourceTable[e.table]]

\* the staged rows whose key equals the key of warehouse row r
StagedMatches(e, r) ==
    {j \in DOMAIN StagedFor(e) : SqlEq(r[TargetKey[e.table]], StagedFor(e)[j][SourceKeyOf(e)])}

\* the staged rows whose key was in no row of the target, in order
StagedUnmatched(e) ==
    SelectSeq(StagedFor(e), LAMBDA s :
        ~\E i \in DOMAIN mergeLog.before[e.table] :
            SqlEq(mergeLog.before[e.table][i][TargetKey[e.table]], s[SourceKeyOf(e)]))

\* the rows the last merge appended to target t
InsertedInto(t) == SubSeq(dw[t], Len(mergeLog.before[t]) + 1, Len(dw[t]))

\* the frame of the merge a log entry records, on the target as it was before
UpsertFrame(e) ==
    LET t == e.table
        B == mergeLog.before[t]
        A == dw[t]
    IN /\ Len(A) >= Len(B)
       /\ \A i \in DOMAIN B :
            /\ DOMAIN A[i] = DOMAIN B[i]
            /\ \A c \in DOMAIN B[i] \ UpdateColumns[t] : A[i][c] = B[i][c]
            /\ e.status = "ok" =>
                 IF StagedMatches(e, B[i]) = {} THEN A[i] = B[i]
                 ELSE \A c \in UpdateColumns[t] :
                         \E j \in StagedMatches(e, B[i]) : A[i][c] = StagedFor(e)[j][c]
       /\ e.status = "ok" =>
            /\ Len(InsertedInto(t)) = Len(StagedUnmatched(e))
            /\ \A k \in DOMAIN InsertedInto(t) :
                 InsertedInto(t)[k][TargetKey[t]] = StagedUnmatched(e)[k][SourceKeyOf(e)]

\* C11: every merge keeps every row the target held, in place; a row whose key
\* matches a staged row changes in the declared update columns only (Name of
\* DimCustomer, which takes the staged value), a matched row of an insert-only
\* target does not change at all, and a merge that executes appends one row per
\* staged row whose key matches no target row.
C11_Type1UpsertFrame ==
    MergeRan => \A n \in DOMAIN mergeLog.log : UpsertFrame(mergeLog.log[n])

\* one merge overwrote a customer's Name, left alone a row of an insert-only
\* target whose staged row carried another value, and inserted a row beside
\* the rows a target already held
C11_Witness ==
    /\ MergeRan /\ Len(mergeLog.log) = Len(Targets)
    /\ \A n \in DOMAIN mergeLog.log : mergeLog.log[n].status = "ok"
    /\ \E i \in DOMAIN mergeLog.before.DimCustomer :
        /\ dw.DimCustomer[i].Name # mergeLog.before.DimCustomer[i].Name
        /\ dw.DimCustomer[i].CustomerID = mergeLog.before.DimCustomer[i].CustomerID
    /\ \E n \in DOMAIN mergeLog.log :
        LET e == mergeLog.log[n]
        IN /\ e.table \in InsertOnly
           /\ \E i \in DOMAIN mergeLog.before[e.table] :
               /\ dw[e.table][i] = mergeLog.before[e.table][i]
               /\ \E j \in StagedMatches(e, mergeLog.before[e.table][i]) :
                   \E c \in DOMAIN StagedFor(e)[j] \cap DOMAIN dw[e.table][i] :
                       StagedFor(e)[j][c] # dw[e.table][i][c]
    /\ \E t \in TargetSet : InsertedInto(t) # <<>> /\ mergeLog.before[t] # <<>>

====
